---- MODULE Spec2Model ----
(***************************************************************************)
(* Model of the MovieData query layer (src/movie_data.py and its second    *)
(* draft src/Backend_and_dataset/movie_data.py).                           *)
(*                                                                         *)
(* State: the two DataFrames held by a MovieData object after __init__,    *)
(* the rows of movie.metadata.tsv they were loaded from, and the outcome   *)
(* (return value or raised exception) of the last query.  Spec runs the    *)
(* queries over the Movies table, SpecActors those over the Characters     *)
(* table, SpecQueries all five queries.  SpecSetup runs the construction  *)
(* of the object: fs is what lies in EXTRACT_DIR, setup the record of the  *)
(* last MovieData() call (the steps it ran, the exception it raised).      *)
(* SpecExtract calls _extract_data on its own.                             *)
(*                                                                         *)
(* Representation.                                                         *)
(*  - A Python value is a record [t, v]: t is the Python type, v the       *)
(*    payload.  A str payload is a sequence of one-character strings, so   *)
(*    that isdigit(), split(), startswith() ... are computed; a genre      *)
(*    name is kept as one token.                                           *)
(*  - A float is a fixed-point integer in hundredths (1.80 is 180); the    *)
(*    rounding of binary floating point is not modelled.                   *)
(*  - A cell of the genre column (column 8) is [t, form, names]: a str     *)
(*    holding the text of a dict literal (form "dict", names = the values  *)
(*    of the mapping in order), of another literal (form "list"), or text  *)
(*    ast.literal_eval rejects: with SyntaxError (form "malformed"), with  *)
(*    ValueError (form "name", a bare word) or with TypeError (form        *)
(*    "unhashable", a dict display with a list as key); or an already      *)
(*    parsed dict (t = "dict").                                            *)
(*  - A cell of the release-date column is [form, y]: a date of year y     *)
(*    (form "date"), or text that to_datetime cannot parse (form "bad", y  *)
(*    the number its first four characters spell, 0 when they spell none). *)
(*  - The loaded tables have all their columns, so the KeyError tests of   *)
(*    movie_type and actor_count never fire; plot only draws a figure.     *)
(***************************************************************************)
EXTENDS Integers, Sequences, FiniteSets, TLC

VARIABLES
    movies_tsv,   \* rows of movie.metadata.tsv
    fs,           \* EXTRACT_DIR: files at its top, the archive, the subfolder
    setup,        \* the last MovieData() call: steps run, exception, readiness
    movies_df,    \* self.movies_df
    actors_df,    \* self.actors_df
    draft,        \* which draft of actor_distributions is installed
    nParsed,      \* number of movie_type calls that reached the parse
    scanned,      \* Characters rows the last call visited in its row loop
    result        \* outcome of the last query

vars == <<movies_tsv, fs, setup, movies_df, actors_df, draft, nParsed, scanned, result>>

(***************************************************************************)
(* Bounds of the model.                                                    *)
(***************************************************************************)
MaxMovies == 2
MaxActors == 2
MaxParseCalls == 3
MaxN == 3
MaxRuns == 2

Genres == {"Drama", "Comedy"}
Years == {2000, 2001}

(***************************************************************************)
(* Generic helpers.                                                        *)
(***************************************************************************)
SeqsUpTo(S, n) == UNION {[1..k -> S] : k \in 0..n}

Range(s) == {s[i] : i \in DOMAIN s}

RECURSIVE Flatten(_)
Flatten(ss) == IF ss = <<>> THEN <<>> ELSE Head(ss) \o Flatten(Tail(ss))

CountIn(x, s) == Cardinality({i \in DOMAIN s : s[i] = x})

\* ascending sequence of the members of a finite set of integers
RECURSIVE SortedSeq(_)
SortedSeq(S) ==
    IF S = {} THEN <<>>
    ELSE LET m == CHOOSE x \in S : \A y \in S : x <= y
         IN  <<m>> \o SortedSeq(S \ {m})

RemoveAt(s, i) == SubSeq(s, 1, i - 1) \o SubSeq(s, i + 1, Len(s))

(***************************************************************************)
(* Outcomes of a call.                                                     *)
(***************************************************************************)
DataFrame(columns, rows) == [columns |-> columns, rows |-> rows]
NoValue == DataFrame(<<>>, <<>>)

Returned(op, args, val) == [op |-> op, args |-> args, exc |-> "none", val |-> val]
Raised(op, args, exc) == [op |-> op, args |-> args, exc |-> exc, val |-> NoValue]

NoneVal == [t |-> "none", v |-> 0]
IntVal(i) == [t |-> "int", v |-> i]
FloatVal(h) == [t |-> "float", v |-> h]
StrVal(cs) == [t |-> "str", v |-> cs]
ListVal == [t |-> "list", v |-> 0]

(***************************************************************************)
(* Genre cells.                                                            *)
(***************************************************************************)
GenreStr(form, names) == [t |-> "str", form |-> form, names |-> names]
GenreDict(names) == [t |-> "dict", form |-> "dict", names |-> names]

\* ast.literal_eval(x): the value of the literal, or the exception raised
literal_eval(x) ==
    IF x.form = "malformed" THEN [exc |-> "SyntaxError", t |-> "none", names |-> <<>>]
    ELSE IF x.form = "name" THEN [exc |-> "ValueError", t |-> "none", names |-> <<>>]
    ELSE IF x.form = "unhashable" THEN [exc |-> "TypeError", t |-> "none", names |-> <<>>]
    ELSE IF x.form = "dict" THEN [exc |-> "none", t |-> "dict", names |-> x.names]
    ELSE [exc |-> "none", t |-> "list", names |-> <<>>]

\* an exception that leaves safe_parse_dict, in the place of its value
GenreExc(exc) == [t |-> "exc", form |-> exc, names |-> <<>>]

safe_parse_dict(x) ==
    IF x.t = "str"
    THEN LET parsed == literal_eval(x)
         IN  IF parsed.exc \in {"ValueError", "SyntaxError"} THEN GenreDict(<<>>)
             ELSE IF parsed.exc # "none" THEN GenreExc(parsed.exc)
             ELSE IF parsed.t = "dict" THEN GenreDict(parsed.names)
             ELSE GenreDict(<<>>)
    ELSE GenreDict(<<>>)

\* df[8].apply(safe_parse_dict)
ApplyParse(df) == [i \in DOMAIN df |-> [df[i] EXCEPT !.c8 = safe_parse_dict(df[i].c8)]]

\* the exception apply() lets through: that of the first row that raises
ApplyExc(df) ==
    LET parsed == ApplyParse(df)
        bad == {i \in DOMAIN parsed : parsed[i].c8.t = "exc"}
    IN  IF bad = {} THEN "none"
        ELSE parsed[CHOOSE i \in bad : \A j \in bad : i <= j].c8.form

(***************************************************************************)
(* pandas helpers.                                                         *)
(***************************************************************************)
\* the distinct values of s in order of first appearance
RECURSIVE Uniques(_)
Uniques(s) ==
    IF s = <<>> THEN <<>>
    ELSE LET rest == Uniques(SubSeq(s, 1, Len(s) - 1))
             x == s[Len(s)]
         IN  IF x \in Range(rest) THEN rest ELSE Append(rest, x)

\* stable sort of <<value, count>> pairs by descending count
RECURSIVE SortDesc(_)
SortDesc(ps) ==
    IF ps = <<>> THEN <<>>
    ELSE LET best == CHOOSE i \in DOMAIN ps :
                        /\ \A j \in DOMAIN ps : ps[j][2] <= ps[i][2]
                        /\ \A j \in 1..(i - 1) : ps[j][2] < ps[i][2]
         IN  <<ps[best]>> \o SortDesc(RemoveAt(ps, best))

\* value_counts(sort=False): the counts in order of first appearance
value_counts_unsorted(s) ==
    LET u == Uniques(s)
    IN  [i \in DOMAIN u |-> <<u[i], CountIn(u[i], s)>>]

\* Series(s).value_counts(): counts per distinct value, largest first
value_counts(s) ==
    LET u == Uniques(s)
    IN  SortDesc([i \in DOMAIN u |-> <<u[i], CountIn(u[i], s)>>])

\* .head(n): the first n rows; all but the last -n rows when n is negative
head(s, n) ==
    IF n >= 0 THEN SubSeq(s, 1, IF n < Len(s) THEN n ELSE Len(s))
    ELSE SubSeq(s, 1, Len(s) + n)

(***************************************************************************)
(* MovieData.movie_type                                                    *)
(***************************************************************************)
all_genres(df) == Flatten([i \in DOMAIN df |-> df[i].c8.names])

\* movie_type with the column parsed before N is validated
movie_type_parse_first(df, N) ==
    LET parsed == ApplyParse(df)
    IN  IF ApplyExc(df) # "none"
        THEN [df |-> df, res |-> Raised("movie_type", <<N>>, ApplyExc(df))]
        ELSE IF N.t # "int"
        THEN [df |-> parsed, res |-> Raised("movie_type", <<N>>, "ValueError")]
        ELSE [df |-> parsed,
              res |-> Returned("movie_type", <<N>>,
                               DataFrame(<<"Movie_Type", "Count">>,
                                   head(value_counts(all_genres(parsed)), N.v)))]

movie_type(df, N) ==
    IF N.t # "int"
    THEN [df |-> df, res |-> Raised("movie_type", <<N>>, "ValueError")]
    ELSE IF ApplyExc(df) # "none"
    THEN [df |-> df, res |-> Raised("movie_type", <<N>>, ApplyExc(df))]
    ELSE LET parsed == ApplyParse(df)
         IN  [df |-> parsed,
              res |-> Returned("movie_type", <<N>>,
                               DataFrame(<<"Movie_Type", "Count">>,
                                   head(value_counts(all_genres(parsed)), N.v)))]

(***************************************************************************)
(* MovieData.releases                                                      *)
(***************************************************************************)
NaT == -1

\* pd.to_datetime(x, errors="coerce").dt.year for one cell
to_year(x) == IF x.form = "date" THEN x.y ELSE NaT

\* lambda g: genre in list(g.values()) if isinstance(g, dict) else False
has_genre(g, genre) == IF g.t = "dict" THEN genre.v \in Range(g.names) ELSE FALSE

RECURSIVE SelectRows(_, _, _)
SelectRows(df, genre, i) ==
    IF i > Len(df) THEN <<>>
    ELSE (IF has_genre(df[i].c8, genre) THEN <<df[i]>> ELSE <<>>)
         \o SelectRows(df, genre, i + 1)

\* df.groupby("Year").size().reset_index(name="Count").dropna()
group_by_year(df) ==
    LET ys == [i \in DOMAIN df |-> to_year(df[i].c3)]
        keys == SortedSeq(Range(ys) \ {NaT})
    IN  [k \in DOMAIN keys |-> <<keys[k], CountIn(keys[k], ys)>>]

\* groupby("Year", dropna=False): rows without a year form a group of their own
group_by_year_keepna(df) ==
    LET ys == [i \in DOMAIN df |-> to_year(df[i].c3)]
        keys == SortedSeq(Range(ys))
    IN  [k \in DOMAIN keys |-> <<keys[k], CountIn(keys[k], ys)>>]

\* releases that keeps the rows without a year when a genre is given
releases_keepna(df, genre) ==
    IF genre.t # "none"
    THEN Returned("releases", <<genre>>,
                  DataFrame(<<"Year", "Count">>, group_by_year_keepna(SelectRows(df, genre, 1))))
    ELSE Returned("releases", <<genre>>, DataFrame(<<"Year", "Count">>, group_by_year(df)))

releases(df, genre) ==
    LET kept == IF genre.t # "none" THEN SelectRows(df, genre, 1) ELSE df
    IN  Returned("releases", <<genre>>, DataFrame(<<"Year", "Count">>, group_by_year(kept)))

\* self.movies_df after releases had it worked on the table itself: every row
\* carries the added "Year" column
movies_after_releases_no_copy(df) ==
    [i \in DOMAIN df |-> [c3 |-> df[i].c3, c8 |-> df[i].c8, Year |-> to_year(df[i].c3)]]

\* self.movies_df after releases: the work is done on df = self.movies_df.copy()
movies_after_releases(df) == df


(***************************************************************************)
(* Python str and float operations.                                        *)
(***************************************************************************)
DigitChars == <<"0", "1", "2", "3", "4", "5", "6", "7", "8", "9">>

IsDigitChar(c) == c \in Range(DigitChars)

DigitValue(c) == (CHOOSE i \in DOMAIN DigitChars : DigitChars[i] = c) - 1

\* str.isdigit(): non-empty and digits only
isdigit(cs) == cs # <<>> /\ \A i \in DOMAIN cs : IsDigitChar(cs[i])

\* any(char.isdigit() for char in col)
any_digit(cs) == \E i \in DOMAIN cs : IsDigitChar(cs[i])

\* str.replace('.', '', 1): the text without its first dot
replace_first_dot(cs) ==
    IF \E i \in DOMAIN cs : cs[i] = "."
    THEN RemoveAt(cs, CHOOSE i \in DOMAIN cs : cs[i] = "." /\ \A j \in 1..(i - 1) : cs[j] # ".")
    ELSE cs

\* str.startswith(prefix)
startswith(cs, prefix) == Len(cs) >= Len(prefix) /\ SubSeq(cs, 1, Len(prefix)) = prefix

\* sub in cs
contains(cs, sub) == \E i \in 1..(Len(cs) - Len(sub) + 1) : SubSeq(cs, i, i + Len(sub) - 1) = sub

\* len(cs.split()): the number of maximal runs of non-blank characters
word_count(cs) ==
    Cardinality({i \in DOMAIN cs : cs[i] # " " /\ (i = 1 \/ cs[i - 1] = " ")})

\* the integer denoted by a sequence of digits
RECURSIVE DigitsValue(_)
DigitsValue(cs) ==
    IF cs = <<>> THEN 0
    ELSE 10 * DigitsValue(SubSeq(cs, 1, Len(cs) - 1)) + DigitValue(cs[Len(cs)])

\* float(cs) for a text of digits with at most one dot, in hundredths
decimal_value(cs) ==
    IF \E i \in DOMAIN cs : cs[i] = "."
    THEN LET d == CHOOSE i \in DOMAIN cs : cs[i] = "."
             frac == SubSeq(cs, d + 1, Len(cs))
             frac2 == SubSeq(frac \o <<"0", "0">>, 1, 2)
         IN  100 * DigitsValue(SubSeq(cs, 1, d - 1)) + DigitsValue(frac2)
    ELSE 100 * DigitsValue(cs)

\* float(x): [exc, v], v in hundredths.  Of the texts float() accepts, the
\* model knows the plain decimals (digits with at most one dot).
float(x) ==
    IF x.t = "float" THEN [exc |-> "none", v |-> x.v]
    ELSE IF x.t = "int" THEN [exc |-> "none", v |-> 100 * x.v]
    ELSE IF x.t = "str"
         THEN IF isdigit(replace_first_dot(x.v))
              THEN [exc |-> "none", v |-> decimal_value(x.v)]
              ELSE [exc |-> "ValueError", v |-> 0]
    ELSE [exc |-> "TypeError", v |-> 0]

(***************************************************************************)
(* MovieData.actor_count                                                   *)
(***************************************************************************)
\* df.groupby(0).size(): the number of rows per movie id, ascending ids
groupby_size(df) ==
    LET ids == [i \in DOMAIN df |-> df[i][1].v]
        keys == SortedSeq(Range(ids))
    IN  [k \in DOMAIN keys |-> CountIn(keys[k], ids)]

\* actor_count without the groupby: the rows per movie id, as (id, rows)
actor_count_per_movie(df) ==
    Returned("actor_count", <<>>,
             DataFrame(<<"Number_of_Actors", "Movie_Count">>,
                       value_counts([i \in DOMAIN df |-> df[i][1].v])))

actor_count(df) ==
    Returned("actor_count", <<>>,
             DataFrame(<<"Number_of_Actors", "Movie_Count">>,
                       value_counts(groupby_size(df))))

(***************************************************************************)
(* MovieData.ages                                                          *)
(***************************************************************************)
LowerChars ==
    <<"a", "b", "c", "d", "e", "f", "g", "h", "i", "j", "k", "l", "m",
      "n", "o", "p", "q", "r", "s", "t", "u", "v", "w", "x", "y", "z">>

UpperChars ==
    <<"A", "B", "C", "D", "E", "F", "G", "H", "I", "J", "K", "L", "M",
      "N", "O", "P", "Q", "R", "S", "T", "U", "V", "W", "X", "Y", "Z">>

\* str.upper()
upper(cs) ==
    [i \in DOMAIN cs |->
        IF \E k \in DOMAIN LowerChars : LowerChars[k] = cs[i]
        THEN UpperChars[CHOOSE k \in DOMAIN LowerChars : LowerChars[k] = cs[i]]
        ELSE cs[i]]

\* pd.to_datetime(x, errors="coerce") for one cell: [y, m], NaT in both for
\* text that is no date.  Of the dates, the model knows the texts "YYYY-MM".
to_datetime(x) ==
    IF /\ x.t = "str"
       /\ Len(x.v) = 7
       /\ x.v[5] = "-"
       /\ isdigit(SubSeq(x.v, 1, 4))
       /\ isdigit(SubSeq(x.v, 6, 7))
       /\ DigitsValue(SubSeq(x.v, 6, 7)) \in 1..12
    THEN [y |-> DigitsValue(SubSeq(x.v, 1, 4)), m |-> DigitsValue(SubSeq(x.v, 6, 7))]
    ELSE [y |-> NaT, m |-> NaT]

\* df.groupby(key).size().reset_index(name="Count").dropna()
group_by_birth(df, period) ==
    LET ks == [i \in DOMAIN df |->
                  IF period = <<"Y">> THEN to_datetime(df[i][5]).y
                  ELSE to_datetime(df[i][5]).m]
        keys == SortedSeq(Range(ks) \ {NaT})
    IN  [k \in DOMAIN keys |-> <<keys[k], CountIn(keys[k], ks)>>]

ages(df, period) ==
    IF period.t # "str"
    THEN Raised("ages", <<period>>, "AttributeError")
    ELSE LET up == upper(period.v)
             p == IF up \notin {<<"Y">>, <<"M">>} THEN <<"Y">> ELSE up
         IN  Returned("ages", <<period>>,
                      DataFrame(<<IF p = <<"Y">> THEN "BirthYear" ELSE "BirthMonth", "Count">>,
                                group_by_birth(df, p)))

\* self.actors_df after ages: the work is done on df = self.actors_df.copy()
actors_after_ages(df) == df

(***************************************************************************)
(* MovieData.actor_distributions                                           *)
(***************************************************************************)
MinHeightCm == 50
MaxHeightCm == 250

GenderM == <<"M">>
GenderF == <<"F">>
possible_genders == {GenderM, GenderF}

\* next((col for col in row_list if P(col)), None)
FirstWhere(row, P(_)) ==
    LET hits == {i \in DOMAIN row : P(row[i])}
    IN  IF hits = {} THEN NoneVal
        ELSE row[CHOOSE i \in hits : \A j \in hits : i <= j]

\* 1.0 <= x <= 2.5, x in hundredths
InMetreRange(h) == 100 <= h /\ h <= 250

\* root draft, lines 192-194
root_is_gender(col) == col.t = "str" /\ col.v \in possible_genders
root_is_height(col) == col.t \in {"int", "float"} /\ InMetreRange(float(col).v)
root_is_name(col) == col.t = "str" /\ ~any_digit(col.v)

\* Backend draft, lines 242-256.  str(col) of a non-negative int or float
\* is digits with at most one dot.
backend_is_gender(col) == col.t = "str" /\ col.v \in possible_genders
backend_is_height(col) ==
    /\ col.t \in {"int", "float", "str"}
    /\ IF col.t = "str" THEN isdigit(replace_first_dot(col.v)) ELSE col.v >= 0
    /\ InMetreRange(float(col).v)
backend_is_name(col) ==
    /\ col.t = "str"
    /\ col.v \notin possible_genders
    /\ ~isdigit(replace_first_dot(col.v))
    /\ ~startswith(col.v, <<"/", "m", "/">>)
    /\ ~contains(col.v, <<"U", "n", "n", "a", "m", "e", "d">>)
    /\ word_count(col.v) > 1

\* the listing row reconstructed from one Characters row, or <<>>
scan_row(row, d) ==
    LET row_gender == IF d = "root" THEN FirstWhere(row, root_is_gender)
                      ELSE FirstWhere(row, backend_is_gender)
        found == IF d = "root" THEN FirstWhere(row, root_is_height)
                 ELSE FirstWhere(row, backend_is_height)
        row_name == IF d = "root" THEN FirstWhere(row, root_is_name)
                    ELSE FirstWhere(row, backend_is_name)
    IN  IF row_gender.t # "none" /\ found.t # "none" /\ row_name.t # "none"
        THEN <<[Actor_Name |-> row_name.v,
                Height_cm |-> float(found).v * 100,
                Gender |-> row_gender.v]>>
        ELSE <<>>

filtered_rows(df, d) == Flatten([i \in DOMAIN df |-> scan_row(df[i], d)])

\* df[mask]: the rows that satisfy P, in order
Filter(rows, P(_)) ==
    LET idx == SortedSeq({i \in DOMAIN rows : P(rows[i])})
    IN  [k \in DOMAIN idx |-> rows[idx[k]]]

ListingColumns == <<"Actor_Name", "Height_cm", "Gender">>

\* the filters with the upper height test left out
apply_filters_no_max(rows, gender, max_cm, min_cm) ==
    LET gender_ok(r) == r.Gender = gender.v
        height_ok(r) == r.Height_cm >= min_cm
        by_gender == IF gender.v # <<"A", "l", "l">> THEN Filter(rows, gender_ok) ELSE rows
    IN  Filter(by_gender, height_ok)

\* the filters with the gender test left out
apply_filters_no_gender(rows, gender, max_cm, min_cm) ==
    LET height_ok(r) == r.Height_cm >= min_cm /\ r.Height_cm <= max_cm
    IN  Filter(rows, height_ok)

\* the filters of lines 201-204, heights in hundredths of a centimetre
apply_filters(rows, gender, max_cm, min_cm) ==
    LET gender_ok(r) == r.Gender = gender.v
        height_ok(r) == r.Height_cm >= min_cm /\ r.Height_cm <= max_cm
        by_gender == IF gender.v # <<"A", "l", "l">> THEN Filter(rows, gender_ok) ELSE rows
    IN  Filter(by_gender, height_ok)

\* the argument checks of lines 164-181: the exception raised, or "none"
validate(gender, max_height_cm, min_height_cm) ==
    LET mx == float(max_height_cm)
        mn == float(min_height_cm)
    IN  IF gender.t # "str" THEN "ValueError"
        ELSE IF mx.exc # "none" THEN mx.exc
        ELSE IF mn.exc # "none" THEN mn.exc
        ELSE IF mx.v <= 0 \/ mn.v <= 0 THEN "ValueError"
        ELSE IF ~(100 * MinHeightCm <= mn.v /\ mn.v <= 100 * MaxHeightCm) THEN "ValueError"
        ELSE IF ~(100 * MinHeightCm <= mx.v /\ mx.v <= 100 * MaxHeightCm) THEN "ValueError"
        ELSE IF mn.v > mx.v THEN "ValueError"
        ELSE "none"

\* [res, scanned]: the outcome, and whether the loop over actors_df was entered
actor_distributions(df, d, gender, max_height_cm, min_height_cm) ==
    LET args == <<gender, max_height_cm, min_height_cm>>
        exc == validate(gender, max_height_cm, min_height_cm)
    IN  IF exc # "none"
        THEN [res |-> Raised("actor_distributions", args, exc), scanned |-> FALSE]
        ELSE LET rows == filtered_rows(df, d)
                 kept == IF d = "backend" /\ rows = <<>> THEN rows
                         ELSE apply_filters(rows, gender, float(max_height_cm).v,
                                            float(min_height_cm).v)
             IN  [res |-> Returned("actor_distributions", args,
                                   DataFrame(ListingColumns, kept)),
                  scanned |-> TRUE]

(***************************************************************************)
(* Archive fetcher: _ensure_data, _download_data, _extract_data.           *)
(* The disk is [top, archive, sub, os]: the files directly in EXTRACT_DIR, *)
(* the archive MovieSummaries.tar.gz (present or not, whether its members  *)
(* lie under a folder MovieSummaries/, which files it holds), the          *)
(* subfolder EXTRACT_DIR/MovieSummaries, and the platform of the machine:  *)
(* Path.rename replaces an existing target on "posix" and raises           *)
(* FileExistsError on "nt".                                                *)
(***************************************************************************)
MovieFile == "movie.metadata.tsv"
CharacterFile == "character.metadata.tsv"
SummaryFile == "plot_summaries.txt"

AllFiles == {MovieFile, CharacterFile, SummaryFile}

\* the files whose presence a draft tests
RequiredFiles(d) == IF d = "root" THEN {MovieFile, CharacterFile} ELSE AllFiles

NoArchive == [present |-> FALSE, nested |-> FALSE, files |-> {}]

Archive(nested, files) == [present |-> TRUE, nested |-> nested, files |-> files]

NoSubfolder == [exists |-> FALSE, files |-> {}]

StatusOK == 200

\* _download_data that writes the response body whatever the status
download_any_status(f, status, served) ==
    [fs |-> [f EXCEPT !.archive = served], exc |-> "none"]

\* requests.get answers with the given status and body
_download_data(f, status, served) ==
    IF status = StatusOK
    THEN [fs |-> [f EXCEPT !.archive = served], exc |-> "none"]
    ELSE [fs |-> f, exc |-> "RuntimeError"]

\* iterdir() yields the entries of the subfolder in an arbitrary order:
\* moved is the set of those it yields before the first one whose rename
\* raises
_extract_data(f, moved) ==
    IF f.archive.present
    THEN LET extracted ==
                 IF f.archive.nested
                 THEN [f EXCEPT !.sub = [exists |-> TRUE,
                                         files |-> f.sub.files \cup f.archive.files]]
                 ELSE [f EXCEPT !.top = f.top \cup f.archive.files]
             entries == extracted.sub.files
             done == (moved \cap entries) \ extracted.top
         IN  IF ~extracted.sub.exists
             THEN [fs |-> extracted, exc |-> "none"]
             ELSE IF f.os = "nt" /\ entries \cap extracted.top # {}
             THEN [fs |-> [extracted EXCEPT !.top = extracted.top \cup done,
                                            !.sub = [exists |-> TRUE,
                                                     files |-> entries \ done]],
                   exc |-> "FileExistsError"]
             ELSE [fs |-> [extracted EXCEPT !.top = extracted.top \cup entries,
                                            !.sub = NoSubfolder],
                   exc |-> "none"]
    ELSE [fs |-> f, exc |-> "FileNotFoundError"]

\* the branch of _ensure_data taken when a required file is missing:
\* [fs, exc, trace, status], trace the steps run, status that of the
\* response (0 when no request was sent)
fetch_and_extract(f, status, served, moved) ==
    LET download == ~f.archive.present
        dl == IF download THEN _download_data(f, status, served)
              ELSE [fs |-> f, exc |-> "none"]
        steps == IF download THEN <<"download">> ELSE <<>>
        sent == IF download THEN status ELSE 0
    IN  IF dl.exc # "none"
        THEN [fs |-> dl.fs, exc |-> dl.exc, trace |-> steps, status |-> sent]
        ELSE [fs |-> _extract_data(dl.fs, moved).fs,
              exc |-> _extract_data(dl.fs, moved).exc,
              trace |-> steps \o <<"extract">>, status |-> sent]

\* _ensure_data without the test for the required files
ensure_data_no_check(f, d, status, served, moved) ==
    fetch_and_extract(f, status, served, moved)

_ensure_data(f, d, status, served, moved) ==
    IF RequiredFiles(d) \subseteq f.top
    THEN [fs |-> f, exc |-> "none", trace |-> <<>>, status |-> 0]
    ELSE fetch_and_extract(f, status, served, moved)

(***************************************************************************)
(* Dataset loader: _load_data.                                             *)
(* A row of movie.metadata.tsv is [c0, c3, c8] (id, release date, genres), *)
(* a row of plot_summaries.txt [movie_id, summary]; an empty field reads   *)
(* as NaN.                                                                 *)
(***************************************************************************)
NaN == [t |-> "nan", v |-> 0]
NaNDate == [form |-> "nan", y |-> 0]
NaNGenre == [t |-> "nan", form |-> "nan", names |-> <<>>]

\* str(n) for n >= 0
RECURSIVE IntDigits(_)
IntDigits(n) ==
    IF n < 10 THEN <<DigitChars[n + 1]>>
    ELSE IntDigits(n \div 10) \o <<DigitChars[(n % 10) + 1]>>

\* movies_df[0].astype(str): read_csv types the id column int64 when no id
\* is missing and float64 otherwise, and str() of a float shows ".0"
astype_str(col) ==
    LET floats == \E i \in DOMAIN col : col[i].t = "nan"
    IN  [i \in DOMAIN col |->
            IF col[i].t = "nan" THEN StrVal(<<"n", "a", "n">>)
            ELSE IF floats THEN StrVal(IntDigits(col[i].v) \o <<".", "0">>)
            ELSE StrVal(IntDigits(col[i].v))]

\* movies_df.merge(summaries_df, left_on=0, right_on="movie_id", how="left")
merge(movies, summaries) ==
    LET keys == astype_str([i \in DOMAIN movies |-> movies[i].c0])
        joined(i) ==
            LET ms == Filter(summaries, LAMBDA s : s.movie_id = keys[i])
            IN  IF ms = <<>>
                THEN <<[c0 |-> keys[i], c3 |-> movies[i].c3, c8 |-> movies[i].c8,
                        movie_id |-> NaN, summary |-> NaN]>>
                ELSE [j \in DOMAIN ms |->
                         [c0 |-> keys[i], c3 |-> movies[i].c3, c8 |-> movies[i].c8,
                          movie_id |-> ms[j].movie_id, summary |-> ms[j].summary]]
    IN  Flatten([i \in DOMAIN movies |-> joined(i)])

\* a row of the Movies table without a missing value
movie_row_complete(r) ==
    /\ r.c0.t # "nan"
    /\ r.c3.form # "nan"
    /\ r.c8.t # "nan"
    /\ ("summary" \in DOMAIN r) => (r.movie_id.t # "nan" /\ r.summary.t # "nan")

actor_row_complete(r) == \A k \in DOMAIN r : r[k].t # "nan"

\* [exc, msg, movies, actors]: msg is the set of paths the message names
_load_data(f, d, tsv, summaries, characters) ==
    IF ~(RequiredFiles(d) \subseteq f.top)
    THEN [exc |-> "FileNotFoundError",
          msg |-> IF d = "root" THEN {MovieFile, CharacterFile} ELSE {},
          movies |-> <<>>, actors |-> <<>>]
    ELSE [exc |-> "none", msg |-> {},
          movies |-> IF d = "root" THEN Filter(tsv, movie_row_complete)
                     ELSE Filter(merge(tsv, summaries), movie_row_complete),
          actors |-> Filter(characters, actor_row_complete)]

(***************************************************************************)
(* MovieData.__init__                                                      *)
(***************************************************************************)
\* __init__ that goes on to _load_data after _ensure_data has raised
init_load_anyway(f, d, tsv, summaries, characters, status, served, moved) ==
    LET e == _ensure_data(f, d, status, served, moved)
        l == _load_data(e.fs, d, tsv, summaries, characters)
    IN  [fs |-> e.fs, ensure_exc |-> e.exc,
         exc |-> IF e.exc # "none" THEN e.exc ELSE l.exc,
         trace |-> e.trace \o <<"load">>, msg |-> l.msg, status |-> e.status,
         ready |-> e.exc = "none" /\ l.exc = "none",
         movies |-> l.movies, actors |-> l.actors]

__init__(f, d, tsv, summaries, characters, status, served, moved) ==
    LET e == _ensure_data(f, d, status, served, moved)
        l == _load_data(e.fs, d, tsv, summaries, characters)
    IN  IF e.exc # "none"
        THEN [fs |-> e.fs, ensure_exc |-> e.exc, exc |-> e.exc, trace |-> e.trace,
              msg |-> {}, status |-> e.status, ready |-> FALSE,
              movies |-> <<>>, actors |-> <<>>]
        ELSE [fs |-> e.fs, ensure_exc |-> "none", exc |-> l.exc,
              trace |-> e.trace \o <<"load">>, msg |-> l.msg, status |-> e.status,
              ready |-> l.exc = "none", movies |-> l.movies, actors |-> l.actors]

(***************************************************************************)
(* Inputs.                                                                 *)
(***************************************************************************)
\* the values of a genre mapping: up to two distinct names, in order
GenreNames == {ns \in SeqsUpTo(Genres, 2) : Cardinality(Range(ns)) = Len(ns)}

GenreCells ==
    {GenreStr("dict", ns) : ns \in GenreNames}
        \cup {GenreStr("list", <<>>), GenreStr("malformed", <<>>)}

DateCells ==
    {[form |-> "date", y |-> y] : y \in Years}
        \cup {[form |-> "bad", y |-> 0]}

MovieRows == [c3 : DateCells, c8 : GenreCells]

NArgs == {IntVal(n) : n \in 0..MaxN} \cup {StrVal(<<"x">>), FloatVal(200), NoneVal}

GenreArgs == {StrVal(g) : g \in Genres} \cup {NoneVal}

\* one row of character.metadata.tsv: movie id, Freebase movie id, release
\* date, character name, date of birth, gender, height in metres, actor
\* name, age at release
ActorRowBorn(mid, character, born, gender, height, name, age) ==
    <<IntVal(mid), StrVal(<<"/", "m", "/", "0", "1">>), StrVal(<<"2", "0", "0", "0">>),
      StrVal(character), StrVal(born), StrVal(gender),
      FloatVal(height), StrVal(name), FloatVal(age)>>

ActorRow(mid, character, gender, height, name, age) ==
    ActorRowBorn(mid, character, <<"1", "9", "7", "0", "-", "0", "5">>, gender, height, name, age)

ActorRows ==
    {ActorRow(330, <<"J", "o">>, GenderM, 180, <<"A", "l", " ", "P", "o">>, 3000),
     ActorRow(330, <<"E", "d", " ", "X", "u">>, GenderF, 100, <<"B", "o", " ", "L", "i">>, 2500),
     ActorRow(975, <<"N", "o", " ", "7">>, GenderM, 250, <<"C", "y", " ", "M", "e">>, 4000),
     ActorRow(975, <<"J", "o">>, GenderF, 510, <<"D", "i", " ", "N", "a">>, 200),
     ActorRow(975, <<"J", "o">>, GenderM, 165, <<"U", "n", "n", "a", "m", "e", "d">>, 4000),
     ActorRow(330, <<"J", "o">>, GenderF, 510, <<"E", "m", " ", "K", "o">>, 4000)}

All == <<"A", "l", "l">>

GenderArgs == {StrVal(GenderM), StrVal(All), IntVal(123)}

MaxHeightArgs == {IntVal(50), IntVal(180), IntVal(300), StrVal(<<"x">>), NoneVal}

MinHeightArgs == {IntVal(0), IntVal(50), IntVal(250), StrVal(<<"1", "6", "0">>), ListVal}

TheMovies == <<>>

\* contents of movie.metadata.tsv for the runs of the loader
MovieLine(id, date, genre) == [c0 |-> id, c3 |-> date, c8 |-> genre]

RawMovies ==
    {<<MovieLine(IntVal(330), [form |-> "date", y |-> 2000], GenreStr("dict", <<"Drama">>)),
       MovieLine(IntVal(500), [form |-> "date", y |-> 2001], GenreStr("dict", <<"Comedy">>)),
       MovieLine(IntVal(975), [form |-> "date", y |-> 2001], GenreStr("dict", <<"Drama">>))>>,
     <<MovieLine(IntVal(330), NaNDate, GenreStr("dict", <<"Drama">>)),
       MovieLine(IntVal(330), [form |-> "date", y |-> 2001], GenreStr("dict", <<"Comedy">>)),
       MovieLine(IntVal(975), [form |-> "date", y |-> 2000], NaNGenre)>>,
     <<MovieLine(NaN, [form |-> "date", y |-> 2000], GenreStr("dict", <<"Drama">>)),
       MovieLine(IntVal(330), [form |-> "date", y |-> 2000], GenreStr("dict", <<"Drama">>))>>}

\* contents of plot_summaries.txt
PlotSummaries ==
    <<[movie_id |-> StrVal(<<"3", "3", "0">>), summary |-> StrVal(<<"a">>)],
      [movie_id |-> StrVal(<<"9", "7", "5">>), summary |-> NaN]>>

\* contents of character.metadata.tsv: the second line has no height
CharacterLines ==
    <<ActorRow(330, <<"J", "o">>, GenderM, 180, <<"A", "l", " ", "P", "o">>, 3000),
      [ActorRow(330, <<"E", "d">>, GenderF, 0, <<"B", "o", " ", "L", "i">>, 2500)
           EXCEPT ![7] = NaN],
      ActorRow(975, <<"N", "o", " ", "7">>, GenderM, 250, <<"C", "y", " ", "M", "e">>, 4000)>>

\* what the URL may answer
StatusCodes == {StatusOK, 404}

\* the archives that may be served or lie on disk: the dataset under a
\* folder MovieSummaries/, and an archive with one file at its top
ServedArchives == {Archive(TRUE, AllFiles), Archive(FALSE, {MovieFile})}

Platforms == {"posix", "nt"}

InitialDisks ==
    [top : {{}, {MovieFile, CharacterFile}, AllFiles},
     archive : {NoArchive} \cup ServedArchives,
     sub : {NoSubfolder},
     os : Platforms]

\* the disks _extract_data may be called on: any of the dataset files at the
\* top, an archive that also carries a README, and possibly a subfolder left
\* by an earlier extraction
ReadmeFile == "README.txt"

ExtractDisks ==
    [top : SUBSET AllFiles,
     archive : {NoArchive, Archive(TRUE, AllFiles \cup {ReadmeFile}),
                Archive(FALSE, {MovieFile})},
     sub : {NoSubfolder, [exists |-> TRUE, files |-> {CharacterFile}]},
     os : Platforms]

\* Movies tables for the runs that mix all five queries: dates of which one is
\* out of the range of a Timestamp ("1010-12-02"), and genre cells of every
\* kind ast.literal_eval tells apart
QueryMovies ==
    {<<[c3 |-> [form |-> "date", y |-> 2000], c8 |-> GenreStr("dict", <<"Drama">>)],
       [c3 |-> [form |-> "bad", y |-> 1010], c8 |-> GenreStr("dict", <<"Drama", "Comedy">>)]>>,
     <<[c3 |-> [form |-> "date", y |-> 2001], c8 |-> GenreStr("malformed", <<>>)],
       [c3 |-> [form |-> "bad", y |-> 0], c8 |-> GenreStr("name", <<>>)]>>,
     <<[c3 |-> [form |-> "date", y |-> 2001], c8 |-> GenreStr("dict", <<"Comedy">>)],
       [c3 |-> [form |-> "date", y |-> 2001], c8 |-> GenreStr("unhashable", <<>>)]>>}

QueryActors ==
    {<<ActorRowBorn(330, <<"J", "o">>, <<"1", "9", "7", "0", "-", "0", "5">>,
                    GenderM, 180, <<"A", "l", " ", "P", "o">>, 3000),
       ActorRowBorn(330, <<"E", "d", " ", "X", "u">>, <<"1", "9", "8", "0", "-", "0", "5">>,
                    GenderF, 100, <<"B", "o", " ", "L", "i">>, 2500),
       ActorRowBorn(975, <<"N", "o", " ", "7">>, <<"1", "9", "7", "0", "-", "1", "1">>,
                    GenderM, 250, <<"C", "y", " ", "M", "e">>, 4000)>>,
     <<ActorRowBorn(975, <<"J", "o">>, <<"x">>,
                    GenderF, 165, <<"D", "i", " ", "N", "a">>, 200),
       ActorRowBorn(975, <<"J", "o">>, <<"1", "9", "8", "0", "-", "1", "1">>,
                    GenderM, 165, <<"E", "m", " ", "K", "o">>, 4000)>>}

PeriodArgs ==
    {StrVal(<<"Y">>), StrVal(<<"y">>), StrVal(<<"M">>), StrVal(<<"m">>),
     StrVal(<<"q">>), NoneVal, IntVal(5)}

(***************************************************************************)
(* State machine.                                                          *)
(***************************************************************************)
NoResult == Returned("init", <<>>, NoValue)

\* the disk and the setup record once MovieData() has returned an object
LoadedDisk ==
    [top |-> AllFiles, archive |-> NoArchive, sub |-> NoSubfolder, os |-> "posix"]

ReadySetup ==
    [runs |-> 1, ready |-> TRUE, ensure_exc |-> "none", exc |-> "none",
     trace |-> <<"load">>, prev |-> <<>>, msg |-> {}, status |-> 0]

Init ==
    /\ movies_tsv \in SeqsUpTo(MovieRows, MaxMovies)
    /\ fs = LoadedDisk
    /\ setup = ReadySetup
    /\ movies_df = movies_tsv
    /\ actors_df = <<>>
    /\ draft = "root"
    /\ nParsed = 0
    /\ scanned = 0
    /\ result = NoResult

InitQueries ==
    /\ movies_tsv \in QueryMovies
    /\ fs = LoadedDisk
    /\ setup = ReadySetup
    /\ movies_df = movies_tsv
    /\ actors_df \in QueryActors
    /\ draft \in {"root", "backend"}
    /\ nParsed = 0
    /\ scanned = 0
    /\ result = NoResult

InitActors ==
    /\ movies_tsv = TheMovies
    /\ fs = LoadedDisk
    /\ setup = ReadySetup
    /\ movies_df = movies_tsv
    /\ actors_df \in SeqsUpTo(ActorRows, MaxActors)
    /\ draft \in {"root", "backend"}
    /\ nParsed = 0
    /\ scanned = 0
    /\ result = NoResult

\* before the first MovieData() call
InitSetup ==
    /\ movies_tsv \in RawMovies
    /\ fs \in InitialDisks
    /\ setup = [runs |-> 0, ready |-> FALSE, ensure_exc |-> "none", exc |-> "none",
                trace |-> <<>>, prev |-> <<>>, msg |-> {}, status |-> 0]
    /\ movies_df = <<>>
    /\ actors_df = <<>>
    /\ draft \in {"root", "backend"}
    /\ nParsed = 0
    /\ scanned = 0
    /\ result = NoResult

\* movie_data = MovieData(): one run of the script
Construct ==
    \E status \in StatusCodes, served \in ServedArchives, moved \in SUBSET AllFiles :
        LET o == __init__(fs, draft, movies_tsv, PlotSummaries, CharacterLines,
                          status, served, moved)
        IN  /\ setup.runs < MaxRuns
            /\ fs' = o.fs
            /\ setup' = [runs |-> setup.runs + 1, ready |-> o.ready,
                         ensure_exc |-> o.ensure_exc, exc |-> o.exc,
                         trace |-> o.trace, prev |-> setup.trace,
                         msg |-> o.msg, status |-> o.status]
            /\ movies_df' = o.movies
            /\ actors_df' = o.actors
            /\ nParsed' = 0
            /\ scanned' = 0
            /\ result' = NoResult
            /\ UNCHANGED <<movies_tsv, draft>>

\* before any call, on a disk of ExtractDisks
InitExtract ==
    /\ movies_tsv = TheMovies
    /\ fs \in ExtractDisks
    /\ setup = [runs |-> 0, ready |-> FALSE, ensure_exc |-> "none", exc |-> "none",
                trace |-> <<>>, prev |-> <<>>, msg |-> {}, status |-> 0]
    /\ movies_df = <<>>
    /\ actors_df = <<>>
    /\ draft \in {"root", "backend"}
    /\ nParsed = 0
    /\ scanned = 0
    /\ result = NoResult

\* a call of _extract_data on its own
ExtractData ==
    \E moved \in SUBSET (AllFiles \cup {ReadmeFile}) :
        LET o == _extract_data(fs, moved)
        IN  /\ fs' = o.fs
            /\ result' = IF o.exc = "none" THEN Returned("_extract_data", <<>>, NoValue)
                          ELSE Raised("_extract_data", <<>>, o.exc)
            /\ UNCHANGED <<movies_tsv, setup, movies_df, actors_df, draft, nParsed, scanned>>

MovieType ==
    \E N \in NArgs :
        LET r == movie_type(movies_df, N)
        IN  /\ setup.ready
            /\ (r.res.exc = "none") => nParsed < MaxParseCalls
            /\ movies_df' = r.df
            /\ result' = r.res
            /\ nParsed' = IF r.res.exc = "none" THEN nParsed + 1 ELSE nParsed
            /\ scanned' = 0
            /\ UNCHANGED <<movies_tsv, fs, setup, actors_df, draft>>

Releases ==
    \E genre \in GenreArgs :
        /\ setup.ready
        /\ result' = releases(movies_df, genre)
        /\ movies_df' = movies_after_releases(movies_df)
        /\ scanned' = 0
        /\ UNCHANGED <<movies_tsv, fs, setup, actors_df, draft, nParsed>>

Ages ==
    \E period \in PeriodArgs :
        /\ setup.ready
        /\ result' = ages(actors_df, period)
        /\ actors_df' = actors_after_ages(actors_df)
        /\ scanned' = 0
        /\ UNCHANGED <<movies_tsv, fs, setup, movies_df, draft, nParsed>>

ActorCount ==
    /\ setup.ready
    /\ result' = actor_count(actors_df)
    /\ scanned' = 0
    /\ UNCHANGED <<movies_tsv, fs, setup, movies_df, actors_df, draft, nParsed>>

ActorDistributions ==
    \E gender \in GenderArgs, max_height_cm \in MaxHeightArgs,
       min_height_cm \in MinHeightArgs :
        LET r == actor_distributions(actors_df, draft, gender, max_height_cm, min_height_cm)
        IN  /\ setup.ready
            /\ result' = r.res
            /\ scanned' = IF r.scanned THEN Len(actors_df) ELSE 0
            /\ UNCHANGED <<movies_tsv, fs, setup, movies_df, actors_df, draft, nParsed>>

Next == MovieType \/ Releases

Spec == Init /\ [][Next]_vars

NextActors == ActorCount \/ ActorDistributions

SpecActors == InitActors /\ [][NextActors]_vars

NextQueries == MovieType \/ Releases \/ ActorCount \/ ActorDistributions \/ Ages

SpecQueries == InitQueries /\ [][NextQueries]_vars

NextSetup == Construct \/ Releases \/ ActorCount

SpecSetup == InitSetup /\ [][NextSetup]_vars

NextExtract == ExtractData

SpecExtract == InitExtract /\ [][NextExtract]_vars

(***************************************************************************)
(* Reference notions the properties are stated against.                    *)
(***************************************************************************)
\* the genre names of a row of the file: the values of the mapping its text denotes
StoredNames(row) == IF row.c8.form = "dict" THEN row.c8.names ELSE <<>>
StoredGenres(row) == Range(StoredNames(row))

\* number of occurrences of the name g among the values of all rows' mappings
Occurrences(g) == CountIn(g, Flatten([i \in DOMAIN movies_tsv |-> StoredNames(movies_tsv[i])]))

\* number of rows of the file of year y that carry genre g
StoredCount(g, y) ==
    Cardinality({i \in DOMAIN movies_tsv :
                    /\ movies_tsv[i].c3.form = "date"
                    /\ movies_tsv[i].c3.y = y
                    /\ g \in StoredGenres(movies_tsv[i])})

IsMovieTypeReturn == result.op = "movie_type" /\ result.exc = "none"

(***************************************************************************)
(* C1: the genre parsing of movie_type is idempotent: a call of            *)
(* movie_type(n), n > 0, that follows a call movie_type(n) leaves every    *)
(* row's genre mapping unchanged and returns the same pairs.               *)
(***************************************************************************)
C1_ParseIdempotent ==
    [][(/\ IsMovieTypeReturn
        /\ result.args[1].v > 0
        /\ result'.op = "movie_type"
        /\ result'.exc = "none"
        /\ result'.args = result.args)
       => (movies_df' = movies_df /\ result'.val = result.val)]_vars

(***************************************************************************)
(* C2: in every state after load, releases(genre) with a genre counts,     *)
(* per year, exactly the rows whose stored genre mapping has that genre    *)
(* among its values, whatever queries were called before.                  *)
(***************************************************************************)
C2_ReleasesCountsStoredGenre ==
    (result.op = "releases" /\ result.args[1].t # "none")
    => Range(result.val.rows) =
           {<<y, StoredCount(result.args[1].v, y)>> :
                y \in {z \in Years : StoredCount(result.args[1].v, z) > 0}}

(***************************************************************************)
(* C3: for n > 0, movie_type(n) returns at most n pairs, counts            *)
(* non-increasing, each count the number of occurrences of the name among  *)
(* the values of all rows' genre mappings, and no omitted genre has a      *)
(* count greater than a returned one.                                      *)
(***************************************************************************)
C3_TopGenres ==
    (IsMovieTypeReturn /\ result.args[1].v > 0)
    => LET val == result.val.rows
           returned == {val[i][1] : i \in DOMAIN val}
       IN  /\ Len(val) <= result.args[1].v
           /\ \A i \in DOMAIN val : \A j \in DOMAIN val :
                  i < j => val[i][2] >= val[j][2]
           /\ \A i \in DOMAIN val : val[i][2] = Occurrences(val[i][1])
           /\ \A g \in Genres \ returned : \A i \in DOMAIN val :
                  Occurrences(g) <= val[i][2]

C3_Witness ==
    /\ IsMovieTypeReturn
    /\ result.args[1].v = 1
    /\ Len(result.val.rows) = 1
    /\ \E g \in Genres : /\ g # result.val.rows[1][1]
                         /\ Occurrences(g) > 0
                         /\ Occurrences(g) < result.val.rows[1][2]

(***************************************************************************)
(* C8: movie_type(n) with n not an integer raises ValueError and leaves    *)
(* the Movies table, its genre column included, as it was before the call. *)
(***************************************************************************)
C8_InvalidNLeavesTable ==
    [][(result'.op = "movie_type" /\ result'.args[1].t # "int")
       => (result'.exc = "ValueError" /\ movies_df' = movies_df)]_vars

C8_Witness ==
    /\ result.op = "movie_type"
    /\ result.exc = "ValueError"
    /\ result.args[1].t = "str"
    /\ Len(movies_df) > 0
    /\ \E i \in DOMAIN movies_df : movies_df[i].c8.t = "str" /\ movies_df[i].c8.names # <<>>

(***************************************************************************)
(* C10: every year returned by releases(genre) is returned by              *)
(* releases(None) too, with a count at least as large.                     *)
(***************************************************************************)
C10_FilteredWithinUnfiltered ==
    (result.op = "releases" /\ result.args[1].t # "none")
    => LET all == releases(movies_df, NoneVal).val.rows
           got == result.val.rows
       IN  \A i \in DOMAIN got :
               \E j \in DOMAIN all : all[j][1] = got[i][1] /\ got[i][2] <= all[j][2]

C10_Witness ==
    /\ result.op = "releases"
    /\ result.args[1].t # "none"
    /\ LET all == releases(movies_df, NoneVal).val.rows
           got == result.val.rows
       IN  \E i \in DOMAIN got : \E j \in DOMAIN all :
               all[j][1] = got[i][1] /\ got[i][2] < all[j][2]

(***************************************************************************)
(* Reference notions for the Characters queries.                           *)
(***************************************************************************)
IsListing == result.op = "actor_distributions"

ArgGender == result.args[1]
ArgMax == result.args[2]
ArgMin == result.args[3]

\* a height bound that converts to a number
Numeric(x) == x.t \in {"int", "float"} \/ (x.t = "str" /\ isdigit(replace_first_dot(x.v)))

\* the bound in hundredths of a centimetre
Cm(x) == IF x.t = "int" THEN 100 * x.v
         ELSE IF x.t = "float" THEN x.v
         ELSE decimal_value(x.v)

\* a numeric bound that is not positive or lies outside [50, 250] cm
OutOfRange(x) == Numeric(x) /\ (Cm(x) <= 0 \/ Cm(x) < 5000 \/ Cm(x) > 25000)

ValidArgs ==
    /\ ArgGender.t = "str"
    /\ Numeric(ArgMax) /\ Numeric(ArgMin)
    /\ ~OutOfRange(ArgMax) /\ ~OutOfRange(ArgMin)
    /\ Cm(ArgMin) <= Cm(ArgMax)

\* the reconstructed actor rows that pass the requested filters
Passing ==
    LET rows == filtered_rows(actors_df, draft)
    IN  {i \in DOMAIN rows :
            /\ ArgGender.v = All \/ rows[i].Gender = ArgGender.v
            /\ Cm(ArgMin) <= rows[i].Height_cm
            /\ rows[i].Height_cm <= Cm(ArgMax)}

RECURSIVE SumProducts(_)
SumProducts(ps) == IF ps = <<>> THEN 0 ELSE Head(ps)[1] * Head(ps)[2] + SumProducts(Tail(ps))

MovieIds == {actors_df[i][1].v : i \in DOMAIN actors_df}
RowsOfMovie(id) == Cardinality({i \in DOMAIN actors_df : actors_df[i][1].v = id})

(***************************************************************************)
(* C4: every row returned by actor_distributions(gender, max_height_cm,    *)
(* min_height_cm) has min_height_cm <= Height_cm <= max_height_cm, and its *)
(* Gender is the requested gender unless the requested gender is "All".    *)
(***************************************************************************)
C4_ListingWithinFilters ==
    (IsListing /\ result.exc = "none")
    => \A i \in DOMAIN result.val.rows :
           LET r == result.val.rows[i]
           IN  /\ Cm(ArgMin) <= r.Height_cm
               /\ r.Height_cm <= Cm(ArgMax)
               /\ ArgGender.v # All => r.Gender = ArgGender.v

C4_Witness ==
    /\ IsListing
    /\ result.exc = "none"
    /\ ArgGender.v = GenderM
    /\ result.val.rows # <<>>
    /\ \E i \in DOMAIN filtered_rows(actors_df, draft) :
           \/ filtered_rows(actors_df, draft)[i].Gender = GenderF
           \/ filtered_rows(actors_df, draft)[i].Height_cm > Cm(ArgMax)

(***************************************************************************)
(* C5: actor_distributions raises ValueError, returns no result and scans  *)
(* no Characters row whenever gender is not a string, or a height bound is *)
(* not positive or outside [50, 250] cm, or min_height_cm > max_height_cm. *)
(***************************************************************************)
C5_InvalidArgumentsRaiseValueError ==
    (/\ IsListing
     /\ \/ ArgGender.t # "str"
        \/ OutOfRange(ArgMax)
        \/ OutOfRange(ArgMin)
        \/ (Numeric(ArgMax) /\ Numeric(ArgMin) /\ Cm(ArgMin) > Cm(ArgMax)))
    => (result.exc = "ValueError" /\ result.val = NoValue /\ scanned = 0)

(***************************************************************************)
(* C6: with a string gender, a max_height_cm or min_height_cm that cannot  *)
(* be converted to a number (a non-numeric string, None, a list) makes     *)
(* actor_distributions raise ValueError and no other kind of exception.    *)
(***************************************************************************)
C6_NonNumericHeightRaisesValueError ==
    (IsListing /\ ArgGender.t = "str" /\ (~Numeric(ArgMax) \/ ~Numeric(ArgMin)))
    => result.exc = "ValueError"

(***************************************************************************)
(* C7: with valid arguments for which no reconstructed actor row passes    *)
(* the gender and height filters, actor_distributions raises nothing and   *)
(* returns an empty table with the columns Actor_Name, Height_cm, Gender;  *)
(* this is the case of every call with max_height_cm below 100 cm.         *)
(***************************************************************************)
C7_EmptyListing ==
    (IsListing /\ ValidArgs)
    => /\ Passing = {} =>
              (result.exc = "none" /\ result.val = DataFrame(ListingColumns, <<>>))
       /\ Cm(ArgMax) < 10000 => Passing = {}
       /\ \A i \in DOMAIN filtered_rows(actors_df, draft) :
              LET h == filtered_rows(actors_df, draft)[i].Height_cm
              IN  10000 <= h /\ h <= 25000

C7_Witness ==
    /\ IsListing
    /\ result.exc = "none"
    /\ ArgGender.v = GenderM
    /\ ArgMax = IntVal(50)
    /\ ArgMin = IntVal(50)
    /\ result.val.rows = <<>>
    /\ filtered_rows(actors_df, draft) # <<>>

(***************************************************************************)
(* C9: actor_count() returns pairs (Number_of_Actors, Movie_Count) where   *)
(* every Number_of_Actors is a positive integer that appears in at most    *)
(* one pair, Movie_Count is the number of movie ids that have exactly that *)
(* many Characters rows, and the sum of Number_of_Actors * Movie_Count is  *)
(* the number of Characters rows.                                          *)
(***************************************************************************)
C9_ActorCountHistogram ==
    result.op = "actor_count"
    => LET ps == result.val.rows
       IN  /\ \A i \in DOMAIN ps : ps[i][1] > 0
           /\ \A i \in DOMAIN ps : \A j \in DOMAIN ps : ps[i][1] = ps[j][1] => i = j
           /\ \A i \in DOMAIN ps :
                  ps[i][2] = Cardinality({id \in MovieIds : RowsOfMovie(id) = ps[i][1]})
           /\ SumProducts(ps) = Len(actors_df)

C9_Witness ==
    /\ result.op = "actor_count"
    /\ \E i \in DOMAIN result.val.rows : result.val.rows[i][1] >= 2
    /\ Cardinality(MovieIds) = 1


(***************************************************************************)
(* Reference notions for the queries of SpecQueries.                       *)
(***************************************************************************)
\* the year a release-date cell stands for: that of the date, else the number
\* its first four characters spell, else none
DerivedYear(c) == IF c.form = "date" THEN c.y ELSE IF c.y # 0 THEN c.y ELSE NaT

DerivedYears == [i \in DOMAIN movies_tsv |-> DerivedYear(movies_tsv[i].c3)]

\* a period argument that asks for months
IsMonthPeriod(p) == p.t = "str" /\ p.v \in {<<"M">>, <<"m">>}

(***************************************************************************)
(* C11: ages(period) never fails; "M" or "m" selects months, every other   *)
(* value (another string, None, a number) gives the result of ages("Y").   *)
(***************************************************************************)
C11_AgesNeverFails ==
    (result.op = "ages")
    => /\ result.exc = "none"
       /\ result.val = ages(actors_df,
                            IF IsMonthPeriod(result.args[1])
                            THEN StrVal(<<"M">>) ELSE StrVal(<<"Y">>)).val

(***************************************************************************)
(* C16: actor_count, releases, ages and actor_distributions leave both     *)
(* tables as they are, whatever their arguments; movie_type leaves the     *)
(* Characters table and, of Movies, changes only the genre column.         *)
(***************************************************************************)
C16_QueriesLeaveTables ==
    [][/\ actors_df' = actors_df
       /\ (result'.op # "movie_type") => (movies_df' = movies_df)
       /\ (result'.op = "movie_type")
            => /\ DOMAIN movies_df' = DOMAIN movies_df
               /\ \A i \in DOMAIN movies_df :
                      [movies_df'[i] EXCEPT !.c8 = movies_df[i].c8] = movies_df[i]]_vars

\* releases has been called on a table whose genre column movie_type had
\* parsed before, with Characters rows loaded
C16_Witness ==
    /\ result.op = "releases"
    /\ nParsed > 0
    /\ movies_df # movies_tsv
    /\ actors_df # <<>>

(***************************************************************************)
(* C19: releases() counts every row under the year of its release date,    *)
(* or, when the date does not parse, under the year its first four         *)
(* characters spell; only rows for which neither gives a year are left     *)
(* out.                                                                    *)
(***************************************************************************)
C19_YearFallbackPerRow ==
    (result.op = "releases" /\ result.args[1].t = "none")
    => Range(result.val.rows) =
           {<<y, CountIn(y, DerivedYears)>> : y \in Range(DerivedYears) \ {NaT}}

(***************************************************************************)
(* C20: the parsing done by movie_type(N), N an integer, never lets an     *)
(* exception through and leaves a mapping in the genre field of every      *)
(* row.                                                                    *)
(***************************************************************************)
C20_ParseNeverRaises ==
    (result.op = "movie_type" /\ result.args[1].t = "int")
    => /\ result.exc = "none"
       /\ \A i \in DOMAIN movies_df : movies_df[i].c8.t = "dict"


(***************************************************************************)
(* The three field scans as the specification words them.                  *)
(***************************************************************************)
DescribedGender(col) == col.t = "str" /\ col.v \in {GenderM, GenderF}

DescribedHeight(col) ==
    /\ col.t \in {"int", "float", "str"}
    /\ float(col).exc = "none"
    /\ InMetreRange(float(col).v)

DescribedName(col) ==
    /\ col.t = "str"
    /\ col.v \notin {GenderM, GenderF}
    /\ float(col).exc # "none"
    /\ (col.v = <<>> \/ Head(col.v) # "/")
    /\ ~contains(col.v, <<"U", "n", "n", "a", "m", "e", "d">>)
    /\ word_count(col.v) >= 2

DescribedRow(row) ==
    LET g == FirstWhere(row, DescribedGender)
        h == FirstWhere(row, DescribedHeight)
        n == FirstWhere(row, DescribedName)
    IN  IF g.t # "none" /\ h.t # "none" /\ n.t # "none"
        THEN <<[Actor_Name |-> n.v, Height_cm |-> float(h).v * 100, Gender |-> g.v]>>
        ELSE <<>>

DescribedRows == Flatten([i \in DOMAIN actors_df |-> DescribedRow(actors_df[i])])

(***************************************************************************)
(* C18: the listing of actor_distributions is made of the rows on which    *)
(* all three scans succeed, each with the first "M"/"F" string as gender,  *)
(* the first value that parses as a decimal in [1.0, 2.5] as height (in    *)
(* centimetres) and the first string that is no gender code, no number, no *)
(* slash-prefixed identifier, has no "Unnamed" and has at least two words  *)
(* as name; the requested filters apply to these rows.                     *)
(***************************************************************************)
C18_RowsScannedAsDescribed ==
    (IsListing /\ result.exc = "none")
    => result.val.rows = apply_filters(DescribedRows, ArgGender, Cm(ArgMax), Cm(ArgMin))


(***************************************************************************)
(* Reference notions for the construction of the object.                   *)
(***************************************************************************)
\* the step from one MovieData() call to the state it leaves
IsRun == setup'.runs = setup.runs + 1

Fetched(trace) == Range(trace) \cap {"download", "extract"} # {}

AllPresent == RequiredFiles(draft) \subseteq fs.top

\* the rows of the join of the movies file with the summaries on the id,
\* in the form of the loaded table
IdJoin ==
    LET joined(i) ==
            LET m == movies_tsv[i]
                key == IF m.c0.t = "nan" THEN NaN ELSE StrVal(IntDigits(m.c0.v))
                ms == Filter(PlotSummaries, LAMBDA s : s.movie_id = key)
            IN  IF ms = <<>>
                THEN <<[c0 |-> key, c3 |-> m.c3, c8 |-> m.c8,
                        movie_id |-> NaN, summary |-> NaN]>>
                ELSE [j \in DOMAIN ms |->
                         [c0 |-> key, c3 |-> m.c3, c8 |-> m.c8,
                          movie_id |-> ms[j].movie_id, summary |-> ms[j].summary]]
    IN  Flatten([i \in DOMAIN movies_tsv |-> joined(i)])

(***************************************************************************)
(* C12 as stated: a MovieData() call that finds all required files runs    *)
(* neither download nor extraction, and neither does a call that follows   *)
(* one whose _ensure_data completed without error.                         *)
(***************************************************************************)
C12_SecondCallDoesNothing ==
    [][IsRun
       => /\ AllPresent => ~Fetched(setup'.trace)
          /\ (setup.runs > 0 /\ setup.ensure_exc = "none") => ~Fetched(setup'.trace)]_vars

(***************************************************************************)
(* C12 amended: a call that finds all required files runs neither download *)
(* nor extraction; a call that follows one whose _ensure_data completed    *)
(* without error runs no download, and runs an extraction only when a      *)
(* required file is still missing.                                         *)
(***************************************************************************)
C12_SecondCallExtractsOnlyIfMissing ==
    [][IsRun
       => /\ AllPresent => ~Fetched(setup'.trace)
          /\ (setup.runs > 0 /\ setup.ensure_exc = "none")
              => /\ "download" \notin Range(setup'.trace)
                 /\ "extract" \in Range(setup'.trace) => ~AllPresent]_vars

\* a second call that only loads, after a first one that extracted
C12_Witness ==
    /\ setup.runs = 2
    /\ "extract" \in Range(setup.prev)
    /\ setup.trace = <<"load">>
    /\ setup.ready

(***************************************************************************)
(* C13: a download is attempted only when a required file is missing and   *)
(* no archive is on disk; when the response status is not 200 the call     *)
(* fails with RuntimeError (the DownloadError), no archive file appears    *)
(* and no extraction is attempted.                                         *)
(***************************************************************************)
C13_DownloadOnlyWhenNeeded ==
    [][(IsRun /\ "download" \in Range(setup'.trace))
       => /\ ~AllPresent
          /\ ~fs.archive.present
          /\ (setup'.status # StatusOK)
              => /\ setup'.exc = "RuntimeError"
                 /\ ~fs'.archive.present
                 /\ fs' = fs
                 /\ "extract" \notin Range(setup'.trace)]_vars

C13_Witness ==
    /\ setup.trace = <<"download">>
    /\ setup.status # StatusOK
    /\ setup.exc = "RuntimeError"
    /\ ~fs.archive.present

(***************************************************************************)
(* C14: when a required file is absent after _ensure_data ran, _load_data  *)
(* fails with FileNotFoundError (the MissingFileError), the message names  *)
(* each expected path, and no table is assigned.                           *)
(***************************************************************************)
C14_MissingFileErrorListsPaths ==
    (setup.runs > 0 /\ setup.ensure_exc = "none" /\ ~AllPresent)
    => /\ setup.exc = "FileNotFoundError"
       /\ RequiredFiles(draft) \subseteq setup.msg
       /\ ~setup.ready
       /\ movies_df = <<>>
       /\ actors_df = <<>>

(***************************************************************************)
(* C15: after a successful load no row of either table has a missing       *)
(* value, and in the draft that joins the summaries the Movies rows are    *)
(* exactly the complete rows of the join of movies and summaries on the    *)
(* id.                                                                     *)
(***************************************************************************)
C15_LoadedRowsComplete ==
    (setup.runs > 0 /\ setup.ready)
    => /\ \A i \in DOMAIN movies_df : movie_row_complete(movies_df[i])
       /\ \A i \in DOMAIN actors_df : actor_row_complete(actors_df[i])
       /\ (draft = "backend") => (movies_df = Filter(IdJoin, movie_row_complete))

(***************************************************************************)
(* C17: in MovieData() every fetch step precedes the load, which is the    *)
(* last step; a step that raises ends the call: no later step runs, no     *)
(* table is assigned, no object exists and no query is answered.           *)
(***************************************************************************)
C17_SetupFailureAborts ==
    LET t == setup.trace
    IN  /\ \A i \in DOMAIN t : (t[i] = "load") => (i = Len(t))
        /\ \A i, j \in DOMAIN t : (t[i] = "download" /\ t[j] = "extract") => (i < j)
        /\ (setup.ensure_exc # "none") => ("load" \notin Range(t))
        /\ (setup.exc = "RuntimeError") => (t = <<"download">>)
        /\ (setup.runs > 0 /\ setup.exc = "none") => (setup.ready /\ t[Len(t)] = "load")
        /\ (setup.exc # "none")
            => /\ ~setup.ready
               /\ movies_df = <<>>
               /\ actors_df = <<>>
        /\ ~setup.ready => (result = NoResult)

\* the load step failed after a download and an extraction
C17_Witness ==
    /\ setup.trace = <<"download", "extract", "load">>
    /\ setup.exc = "FileNotFoundError"
    /\ ~setup.ready


(***************************************************************************)
(* C21: when _extract_data finds the archive and the extraction leaves a   *)
(* subfolder MovieSummaries in EXTRACT_DIR, then afterwards every entry of *)
(* that subfolder lies directly in EXTRACT_DIR, the subfolder is gone and  *)
(* the archive is still there; without an archive the call raises          *)
(* FileNotFoundError (the MissingArchiveError) and the disk is unchanged.   *)
(***************************************************************************)
C21_ExtractFlattens ==
    [][(result'.op = "_extract_data")
       => IF fs.archive.present
          THEN (fs.archive.nested \/ fs.sub.exists)
               => /\ fs.sub.files \subseteq fs'.top
                  /\ fs.archive.nested => (fs.archive.files \subseteq fs'.top)
                  /\ ~fs'.sub.exists
                  /\ fs'.archive = fs.archive
          ELSE /\ result'.exc = "FileNotFoundError"
               /\ fs' = fs]_vars

====
